---- MODULE Spec2Model ----
(***************************************************************************)
(* Verification model of parts of qtbase:                                  *)
(*   - QAbstractProxyModel's source-model pointer (setSourceModel,         *)
(*     sourceModel, _q_sourceModelDestroyed)                               *)
(*   - QLibraryPrivate::load_sys / unload_sys on Windows                   *)
(*   - qt_int_sqrt                                                         *)
(*   - QSysInfo::productVersion on Windows                                 *)
(*   - QSysInfo on Linux: the release files, productType, kernelType,      *)
(*     kernelVersion, prettyProductName                                    *)
(*   - QPollingFileSystemWatcherEngine: addPaths, removePaths, timeout     *)
(*   - the Android assets file engine: FolderIterator, its cache, and      *)
(*     AndroidAbstractFileEngineIterator                                   *)
(*   - the platform integration plugins linuxfb, offscreen and winrt:      *)
(*     create                                                              *)
(* Each part has its own specification over the shared variable list; the  *)
(* variables of the other parts stay at their idle values.                 *)
(***************************************************************************)
EXTENDS Integers, Sequences, FiniteSets, TLC

VARIABLES
    \* ---- QAbstractProxyModel ----
    model,      \* QAbstractProxyModelPrivate::model (a pointer)
    conn,       \* per sender: number of destroyed() -> _q_sourceModelDestroyed() connections
    alive,      \* the source models that currently exist
    notified,   \* how many times the last operation ran d->model.notify()
    op,         \* the last operation of the proxy part and its argument
    \* ---- QLibraryPrivate (Windows) ----
    fileName,     \* QLibraryPrivate::fileName, a sequence of path tokens
    absolute,     \* what QFileSystemEntry(fileName).isAbsolute() answers
    pluginState,  \* QLibraryPrivate::pluginState
    dlls,         \* what LoadLibrary answered for each native name in the last load_sys
    tried,        \* the names load_sys handed to LoadLibrary, in order
    pHnd,         \* QLibraryPrivate::pHnd
    errorString,  \* QLibraryPrivate::errorString
    ret,          \* the value the last call returned
    libOp,        \* the last operation of the library part
    \* ---- qt_int_sqrt ----
    sqrtN,        \* the argument n
    sqrtRet,      \* the value returned
    sqrtPc,       \* "call" before the call, "done" after it
    \* ---- QSysInfo on Windows ----
    osver,        \* what qWindowsVersionInfo() returns (OSVERSIONINFOEX)
    winRet,       \* the value QSysInfo::productVersion() returned
    winPc,        \* "call" before the call, "done" after it
    \* ---- QSysInfo on Linux ----
    fs,           \* the release files: per path, whether it exists and its lines
    utsname,      \* what uname() gives: whether it succeeded, sysname, release
    ptypeRet,     \* the value QSysInfo::productType() returned
    prettyRet,    \* the value QSysInfo::prettyProductName() returned
    prettyFrom,   \* the return statement prettyProductName() left by
    ktypeRet,     \* the value QSysInfo::kernelType() returned
    kverRet,      \* the value QSysInfo::kernelVersion() returned
    opened,       \* the files the last readOsRelease() opened, in order
    \* ---- QPollingFileSystemWatcherEngine ----
    disk,           \* the file system: per object, whether it exists and its state stamp
    fileList,       \* the caller's list behind QStringList *files
    directoryList,  \* the caller's list behind QStringList *directories
    files,          \* this->files: path -> snapshot
    directories,    \* this->directories: path -> snapshot
    timerActive,    \* timer.isActive()
    unhandled,      \* the list the operation returned (addPaths, removePaths)
    emitted,        \* the signals the operation emitted (timeout)
    watchOp,        \* the operation whose results the caller is looking at, with
                    \* its argument; "none" between two operations
    \* ---- Android assets: FolderIterator and its cache ----
    envCacheSize,        \* qEnvironmentVariableIntValue("QT_ANDROID_MAX_ASSETS_CACHE_SIZE")
    m_assetsCache,       \* FolderIterator::m_assetsCache: <<path, pointer>> pairs, most recently used first
    m_assetsCacheMutex,  \* FolderIterator::m_assetsCacheMutex: 0 when free, else the thread that holds it
    heap,                \* the FolderIterator objects built so far: pointer -> [m_path, m_index, items]
    built,               \* per path: how often its listing was built since it last entered the cache
    apc,                 \* per thread: where it is in its iterator's code
    dirPath,             \* per thread: the path its AndroidAbstractFileEngineIterator was created for
    callPath,            \* per thread: the argument of its call of fromCache
    folder,              \* per thread: the pointer its last call of fromCache returned
    idx,                 \* per thread: the value of m_index it read in ++m_index
    m_stack,             \* per thread: AndroidAbstractFileEngineIterator::m_stack (pointers)
    m_currentIterator,   \* per thread: AndroidAbstractFileEngineIterator::m_currentIterator
    seen,                \* per thread: the names next() has returned, in order
    \* ---- platform integration plugins ----
    system,          \* the argument system of create()
    paramList,       \* the argument paramList of create()
    succeeded,       \* what QWinRTIntegration::succeeded() answers on a new integration
    pluginRet        \* per plugin: the value its create() returned

proxyVars == <<model, conn, alive, notified, op>>
libVars == <<fileName, absolute, pluginState, dlls, tried, pHnd, errorString, ret, libOp>>
sqrtVars == <<sqrtN, sqrtRet, sqrtPc>>
winVars == <<osver, winRet, winPc>>
unixVars == <<fs, utsname, ptypeRet, prettyRet, prettyFrom, ktypeRet, kverRet, opened>>
watchVars == <<disk, fileList, directoryList, files, directories, timerActive,
               unhandled, emitted, watchOp>>
assetsVars == <<envCacheSize, m_assetsCache, m_assetsCacheMutex, heap, built, apc,
                dirPath, callPath, folder, idx, m_stack, m_currentIterator, seen>>
pluginVars == <<system, paramList, succeeded, pluginRet>>
vars == <<proxyVars, libVars, sqrtVars, winVars, unixVars, watchVars, assetsVars, pluginVars>>

\* What an operation of one part leaves alone: the other parts.
notProxy == <<libVars, sqrtVars, winVars, unixVars, watchVars, assetsVars, pluginVars>>
notLib == <<proxyVars, sqrtVars, winVars, unixVars, watchVars, assetsVars, pluginVars>>
notSqrt == <<proxyVars, libVars, winVars, unixVars, watchVars, assetsVars, pluginVars>>
notWin == <<proxyVars, libVars, sqrtVars, unixVars, watchVars, assetsVars, pluginVars>>
notUnix == <<proxyVars, libVars, sqrtVars, winVars, watchVars, assetsVars, pluginVars>>
notWatch == <<proxyVars, libVars, sqrtVars, winVars, unixVars, assetsVars, pluginVars>>
notAssets == <<proxyVars, libVars, sqrtVars, winVars, unixVars, watchVars, pluginVars>>
notPlugin == <<proxyVars, libVars, sqrtVars, winVars, unixVars, watchVars, assetsVars>>

(***************************************************************************)
(* QLibraryPrivate on Windows (qlibrary_win.cpp)                           *)
(***************************************************************************)

\* Strings are sequences of tokens; QString + QLatin1String is \o.
dllSuffix == <<".dll">>

\* The null library handle; a loaded module's handle is its native name.
NullHandle == <<>>

\* The libraries of the model: fileName, with the answer of
\* QFileSystemEntry(fileName).isAbsolute() for it.
LibraryNames ==
    { [name |-> <<"foo">>, absolute |-> FALSE],
      [name |-> <<"plugins", "/", "foo", ".dll">>, absolute |-> FALSE],
      [name |-> <<"C:", "/", "lib", "/", "foo">>, absolute |-> TRUE] }

PluginStates == {"IsAPlugin", "IsNotAPlugin", "MightBeAPlugin"}

\* What LoadLibrary can do with a name: hand out a handle, or fail with
\* GetLastError() ERROR_MOD_NOT_FOUND or with another error.
LoadOutcomes == {"loaded", "ERROR_MOD_NOT_FOUND", "ERROR_BAD_EXE_FORMAT"}

\* QDir::toNativeSeparators on Windows: every '/' becomes '\'.
toNativeSeparators(name) ==
    [i \in 1..Len(name) |-> IF name[i] = "/" THEN "\\" ELSE name[i]]

\* Mutant: the two insertions are swapped (suffix first for absolute names).
attemptsOf_Swapped(fn, abs, ps) ==
    LET a0 == IF ps # "IsAPlugin" THEN <<fn \o dllSuffix>> ELSE <<>>
    IN  IF abs THEN a0 \o <<fn>> ELSE <<fn>> \o a0

\* load_sys, lines 83-94: the list of attempts.
attemptsOf(fn, abs, ps) ==
    LET a0 == IF ps # "IsAPlugin" THEN <<fn \o dllSuffix>> ELSE <<>>
    IN  IF abs THEN <<fn>> \o a0 ELSE a0 \o <<fn>>

\* LoadLibrary(toNativeSeparators(attempt)) under the answers os.
LoadLibrary(os, attempt) ==
    IF os[toNativeSeparators(attempt)] = "loaded"
    THEN toNativeSeparators(attempt)
    ELSE NullHandle

\* ::GetLastError() after LoadLibrary(attempt) failed.
GetLastError(os, attempt) == os[toNativeSeparators(attempt)]

\* Mutant: the loop goes on after any failure.
bailOut_OnHandleOnly(hnd, lastError) == hnd # NullHandle

\* load_sys, line 103: the condition of the break.
bailOut(hnd, lastError) ==
    hnd # NullHandle \/ lastError # "ERROR_MOD_NOT_FOUND"

\* load_sys, lines 97-105: the loop over the attempts from index i on;
\* done holds the attempts already made.
RECURSIVE loadLoop(_, _, _, _)
loadLoop(os, attempts, i, done) ==
    LET attempt == attempts[i]
        hnd == LoadLibrary(os, attempt)
        lastError == GetLastError(os, attempt)
        done1 == Append(done, attempt)
    IN  IF bailOut(hnd, lastError) \/ i = Len(attempts)
        THEN [hnd |-> hnd, tried |-> done1, lastError |-> lastError]
        ELSE loadLoop(os, attempts, i + 1, done1)

\* The value of QLibrary::tr("Cannot load library %1: %2").arg(a, b).
cannotLoad(a, b) == <<"Cannot load library %1: %2", a, b>>

\* The value of QLibrary::tr("Cannot unload library %1: %2").arg(a, b).
cannotUnload(a, b) == <<"Cannot unload library %1: %2", a, b>>

LibStart ==
    /\ \E l \in LibraryNames : fileName = l.name /\ absolute = l.absolute
    /\ pluginState \in PluginStates
    /\ dlls = <<>>
    /\ tried = <<>>
    /\ pHnd = NullHandle
    /\ errorString = <<>>
    /\ ret = FALSE
    /\ libOp = "new"

LibIdle ==
    /\ fileName = <<>>
    /\ absolute = FALSE
    /\ pluginState = "MightBeAPlugin"
    /\ dlls = <<>>
    /\ tried = <<>>
    /\ pHnd = NullHandle
    /\ errorString = <<>>
    /\ ret = FALSE
    /\ libOp = "idle"

\* QLibraryPrivate::load_sys(), with the operating system answering os.
load_sys(os) ==
    LET attempts == attemptsOf(fileName, absolute, pluginState)
        r == loadLoop(os, attempts, 1, <<>>)
    IN  /\ dlls' = os
        /\ tried' = r.tried
        /\ errorString' = IF r.hnd = NullHandle
                          THEN cannotLoad(toNativeSeparators(fileName), r.lastError)
                          ELSE <<>>
        /\ pHnd' = r.hnd
        /\ ret' = (r.hnd # NullHandle)
        /\ libOp' = "load_sys"
        /\ UNCHANGED <<fileName, absolute, pluginState>>
        /\ UNCHANGED notLib

\* QLibraryPrivate::unload_sys(), FreeLibrary answering ok.
unload_sys(ok) ==
    /\ pHnd # NullHandle
    /\ errorString' = IF ~ok
                      THEN cannotUnload(toNativeSeparators(fileName), "ERROR_INVALID_HANDLE")
                      ELSE <<>>
    /\ ret' = ok
    /\ libOp' = "unload_sys"
    /\ UNCHANGED <<fileName, absolute, pluginState, dlls, tried, pHnd>>
    /\ UNCHANGED notLib

\* The names LoadLibrary may be asked about for this library.
NativeCandidates ==
    { toNativeSeparators(fileName), toNativeSeparators(fileName \o dllSuffix) }

LibNext ==
    \/ \E os \in [NativeCandidates -> LoadOutcomes] : load_sys(os)
    \/ \E ok \in BOOLEAN : unload_sys(ok)

(***************************************************************************)
(* QAbstractProxyModel                                                     *)
(***************************************************************************)

\* Number of distinct source-model objects the environment may create.
NumModels == 3

\* Pointers are integers: the null pointer, the static placeholder, and
\* the source models.
nullptr == 0
staticEmptyModel == 1
Models == 2..(NumModels + 1)
Senders == Models \cup {staticEmptyModel}

\* disconnect(sender, SIGNAL(destroyed()), this, SLOT(_q_sourceModelDestroyed())):
\* removes every such connection of that sender.
disconnect(c, sender) == [c EXCEPT ![sender] = 0]

\* connect(sender, SIGNAL(destroyed()), this, SLOT(_q_sourceModelDestroyed())):
\* adds one connection (no Qt::UniqueConnection).
connect(c, sender) == [c EXCEPT ![sender] = c[sender] + 1]

\* Mutant: the nullptr special case is missing.
setSourceModel_NoSpecialCase(m, c, sourceModel) ==
    IF sourceModel # m
    THEN LET c1 == IF m # nullptr THEN disconnect(c, m) ELSE c
         IN  IF sourceModel # nullptr
             THEN [model |-> sourceModel, conn |-> connect(c1, sourceModel), notified |-> 1]
             ELSE [model |-> staticEmptyModel, conn |-> c1, notified |-> 1]
    ELSE [model |-> m, conn |-> c, notified |-> 0]

\* QAbstractProxyModel::setSourceModel(sourceModel) on d->model = m with
\* connections c: the new d->model, the new connections and the number of
\* notifications sent.
setSourceModel(m, c, sourceModel) ==
    IF sourceModel = nullptr /\ m = staticEmptyModel
    THEN [model |-> m, conn |-> c, notified |-> 0]
    ELSE IF sourceModel # m
         THEN LET c1 == IF m # nullptr THEN disconnect(c, m) ELSE c
              IN  IF sourceModel # nullptr
                  THEN [model |-> sourceModel, conn |-> connect(c1, sourceModel),
                        notified |-> 1]
                  ELSE [model |-> staticEmptyModel, conn |-> c1, notified |-> 1]
         ELSE [model |-> m, conn |-> c, notified |-> 0]

\* Mutant: the slot forgets to fall back to the placeholder model.
q_sourceModelDestroyed_Keep(m) == m

\* QAbstractProxyModelPrivate::_q_sourceModelDestroyed(): the new d->model
\* (invalidatePersistentIndexes() does not touch the pointer).
q_sourceModelDestroyed(m) == staticEmptyModel

\* QAbstractProxyModel::sourceModel()
sourceModel == IF model = staticEmptyModel THEN nullptr ELSE model

\* The constructor: the private object starts with a null model and no
\* connection, then setSourceModel(staticEmptyModel()) runs.
Constructed == setSourceModel(nullptr, [s \in Senders |-> 0], staticEmptyModel)

ProxyStart ==
    /\ model = Constructed.model
    /\ conn = Constructed.conn
    /\ alive = {}
    /\ notified = Constructed.notified
    /\ op = [name |-> "construct", arg |-> nullptr]

ProxyIdle ==
    /\ model = staticEmptyModel
    /\ conn = [s \in Senders |-> 0]
    /\ alive = {}
    /\ notified = 0
    /\ op = [name |-> "idle", arg |-> nullptr]

\* The application creates a source model.
CreateModel(m) ==
    /\ m \notin alive
    /\ alive' = alive \cup {m}
    /\ op' = [name |-> "create", arg |-> m]
    /\ notified' = 0
    /\ UNCHANGED <<model, conn>>
    /\ UNCHANGED notProxy

\* The application calls proxy.setSourceModel(sm) with a live model or nullptr.
SetSourceModel(sm) ==
    /\ sm \in alive \cup {nullptr}
    /\ LET r == setSourceModel(model, conn, sm)
       IN  /\ model' = r.model
           /\ conn' = r.conn
           /\ notified' = r.notified
    /\ op' = [name |-> "setSourceModel", arg |-> sm]
    /\ UNCHANGED alive
    /\ UNCHANGED notProxy

\* A source model is deleted: QObject emits destroyed(), every connected
\* slot runs, and the object's connections go away with it.
DestroyModel(m) ==
    /\ m \in alive
    /\ alive' = alive \ {m}
    /\ model' = IF conn[m] > 0 THEN q_sourceModelDestroyed(model) ELSE model
    /\ conn' = [conn EXCEPT ![m] = 0]
    /\ notified' = 0
    /\ op' = [name |-> "destroyed", arg |-> m]
    /\ UNCHANGED notProxy

ProxyNext ==
    \/ \E m \in Models : CreateModel(m)
    \/ \E sm \in Models \cup {nullptr} : SetSourceModel(sm)
    \/ \E m \in Models : DestroyModel(m)

(***************************************************************************)
(* qt_int_sqrt (qglobal.cpp)                                               *)
(***************************************************************************)

\* unsigned int has 2 * HalfBits bits: the model scales the 32-bit word
\* down and keeps its width even, as 32 is.
HalfBits == 6
WordBits == 2 * HalfBits
Modulus == 2 ^ WordBits
UINT_MAX == Modulus - 1

\* unsigned arithmetic of the word width
shl(x, k) == (x * (2 ^ k)) % Modulus
shr(x, k) == x \div (2 ^ k)
add(x, y) == (x + y) % Modulus
sub(x, y) == (x - y) % Modulus
mul(x, y) == (x * y) % Modulus

\* lines 3530-3531: while (q <= n) q <<= 2;
RECURSIVE growQ(_, _)
growQ(q, n) == IF q <= n THEN growQ(shl(q, 2), n) ELSE q

\* lines 3532-3540: the bisection loop; returns p.
RECURSIVE bisect(_, _, _)
bisect(p, q, r) ==
    IF q # 1
    THEN LET q1 == shr(q, 2)
             h == add(p, q1)
             p1 == shr(p, 1)
         IN  IF r >= h
             THEN bisect(add(p1, q1), q1, sub(r, h))
             ELSE bisect(p1, q1, r)
    ELSE p

\* Mutant: the comparison is strict.
pickRoot_Strict(n, r) ==
    LET r2 == add(r, 1)
    IN  IF n > mul(r2, r2) THEN r2 ELSE r

\* lines 3526-3527: r2 = r + 1; return (n >= r2 * r2) ? r2 : r;
pickRoot(n, r) ==
    LET r2 == add(r, 1)
    IN  IF n >= mul(r2, r2) THEN r2 ELSE r

\* unsigned int qt_int_sqrt(unsigned int n)
RECURSIVE qt_int_sqrt(_)
qt_int_sqrt(n) ==
    IF n >= shr(UINT_MAX, 2)
    THEN pickRoot(n, mul(2, qt_int_sqrt(n \div 4)))
    ELSE bisect(0, growQ(1, n), n)

SqrtStart ==
    /\ sqrtN \in 0..UINT_MAX
    /\ sqrtRet = 0
    /\ sqrtPc = "call"

SqrtIdle ==
    /\ sqrtN = 0
    /\ sqrtRet = 0
    /\ sqrtPc = "idle"

\* The call qt_int_sqrt(sqrtN).
CallSqrt ==
    /\ sqrtPc = "call"
    /\ sqrtRet' = qt_int_sqrt(sqrtN)
    /\ sqrtPc' = "done"
    /\ UNCHANGED sqrtN
    /\ UNCHANGED notSqrt

SqrtNext == CallSqrt

(***************************************************************************)
(* Strings: a QString, QByteArray or const char * is a sequence of         *)
(* one-character strings                                                   *)
(***************************************************************************)

UpperCase == <<"A", "B", "C", "D", "E", "F", "G", "H", "I", "J", "K", "L", "M", "N", "O", "P", "Q", "R", "S", "T", "U", "V", "W", "X", "Y", "Z">>
LowerCase == <<"a", "b", "c", "d", "e", "f", "g", "h", "i", "j", "k", "l", "m", "n", "o", "p", "q", "r", "s", "t", "u", "v", "w", "x", "y", "z">>
DigitChars == <<"0", "1", "2", "3", "4", "5", "6", "7", "8", "9">>

\* QChar::toLower for the Latin letters
toLowerChar(c) ==
    IF \E i \in 1..Len(UpperCase) : UpperCase[i] = c
    THEN LowerCase[CHOOSE i \in 1..Len(UpperCase) : UpperCase[i] = c]
    ELSE c

\* QString::toLower / QByteArray::toLower
toLower(s) == [i \in 1..Len(s) |-> toLowerChar(s[i])]

\* QString::remove(QChar c)
remove(s, c) == SelectSeq(s, LAMBDA x : x # c)

\* QString::number(n) for n >= 0, in base 10
RECURSIVE number(_)
number(n) ==
    IF n < 10 THEN <<DigitChars[n + 1]>>
    ELSE number(n \div 10) \o <<DigitChars[(n % 10) + 1]>>

\* a null const char *: no string of characters equals it
NullString == <<"(null)">>

\* unknownText(): QStringLiteral("unknown")
unknownText == <<"u", "n", "k", "n", "o", "w", "n">>

(***************************************************************************)
(* QSysInfo on Windows (qglobal.cpp, Q_OS_WIN)                             *)
(***************************************************************************)

\* OSVERSIONINFOEX values of the model
WinProductTypes == {"VER_NT_WORKSTATION", "VER_NT_DOMAIN_CONTROLLER", "VER_NT_SERVER"}
WinVersions == {<<6, 3>>, <<10, 0>>}
WinBuilds == {9600, 17762, 17763, 20347, 20348, 21999, 22000}

\* Highest service pack number (major and minor) of the model.
MaxServicePack == 1

\* #define Q_WINVER(major, minor) (major << 8 | minor), for minor < 256
Q_WINVER(major, minor) == major * 256 + minor

\* winSp_helper()
winSp_helper(osv) ==
    IF osv.wServicePackMajor # 0
    THEN <<"S", "P", " ">> \o number(osv.wServicePackMajor)
         \o (IF osv.wServicePackMinor # 0
             THEN <<".">> \o number(osv.wServicePackMinor)
             ELSE <<>>)
    ELSE <<>>

\* osVer_helper() for Windows
osVer_helper(osv) ==
    LET workstation == osv.wProductType = "VER_NT_WORKSTATION"
    IN  IF Q_WINVER(osv.dwMajorVersion, osv.dwMinorVersion) = Q_WINVER(10, 0)
        THEN IF workstation
             THEN IF osv.dwBuildNumber >= 22000 THEN <<"1", "1">> ELSE <<"1", "0">>
             ELSE IF osv.dwBuildNumber >= 20348 THEN <<"S", "e", "r", "v", "e", "r", " ", "2", "0", "2", "2">>
                  ELSE IF osv.dwBuildNumber >= 17763 THEN <<"S", "e", "r", "v", "e", "r", " ", "2", "0", "1", "9">>
                  ELSE <<"S", "e", "r", "v", "e", "r", " ", "2", "0", "1", "6">>
        ELSE NullString

\* QSysInfo::productVersion(), Q_OS_WIN branch
productVersionWin(osv) ==
    LET version == osVer_helper(osv)
    IN  IF version # NullString
        THEN toLower(remove(version, " ")) \o toLower(remove(winSp_helper(osv), " "))
        ELSE unknownText

WinStart ==
    /\ osver \in [wProductType : WinProductTypes,
                  version : WinVersions,
                  dwBuildNumber : WinBuilds,
                  wServicePackMajor : 0..MaxServicePack,
                  wServicePackMinor : 0..MaxServicePack]
    /\ winRet = NullString
    /\ winPc = "call"

WinIdle ==
    /\ osver = <<>>
    /\ winRet = NullString
    /\ winPc = "idle"

\* The OSVERSIONINFOEX fields the code reads.
osverInfo ==
    [wProductType |-> osver.wProductType,
     dwMajorVersion |-> osver.version[1],
     dwMinorVersion |-> osver.version[2],
     dwBuildNumber |-> osver.dwBuildNumber,
     wServicePackMajor |-> osver.wServicePackMajor,
     wServicePackMinor |-> osver.wServicePackMinor]

\* The call QSysInfo::productVersion().
CallProductVersionWin ==
    /\ winPc = "call"
    /\ winRet' = productVersionWin(osverInfo)
    /\ winPc' = "done"
    /\ UNCHANGED osver
    /\ UNCHANGED notWin

WinNext == CallProductVersionWin

(***************************************************************************)
(* QSysInfo on Linux (qglobal.cpp, USE_ETC_OS_RELEASE and Q_OS_LINUX)      *)
(* A file is [exists, lines]; every line of a file ends with '\n', and     *)
(* lines holds them without it.                                            *)
(***************************************************************************)

etcOsRelease == <<"/", "e", "t", "c", "/", "o", "s", "-", "r", "e", "l", "e", "a", "s", "e">>
usrLibOsRelease == <<"/", "u", "s", "r", "/", "l", "i", "b", "/", "o", "s", "-", "r", "e", "l", "e", "a", "s", "e">>
etcLsbRelease == <<"/", "e", "t", "c", "/", "l", "s", "b", "-", "r", "e", "l", "e", "a", "s", "e">>
etcRedHatRelease == <<"/", "e", "t", "c", "/", "r", "e", "d", "h", "a", "t", "-", "r", "e", "l", "e", "a", "s", "e">>
etcDebianVersion == <<"/", "e", "t", "c", "/", "d", "e", "b", "i", "a", "n", "_", "v", "e", "r", "s", "i", "o", "n">>
etcQtRelease == <<"/", "e", "t", "c", "/", "q", "t", "-", "r", "e", "l", "e", "a", "s", "e">>

MissingFile == [exists |-> FALSE, lines |-> <<>>]
File(lines) == [exists |-> TRUE, lines |-> lines]

\* The contents each file of the model may have.
FileChoices(path) ==
    IF path = etcOsRelease
    THEN { MissingFile,
           File(<<>>),
           File(<<<<"I", "D", "=", "q", "t">>, <<"V", "E", "R", "S", "I", "O", "N", "_", "I", "D", "=", "6">>, <<"P", "R", "E", "T", "T", "Y", "_", "N", "A", "M", "E", "=", "\"", "Q", "t", " ", "O", "S", "\"">>>>),
           File(<<<<"P", "R", "E", "T", "T", "Y", "_", "N", "A", "M", "E", "=", "\"", "Q", "t", " ", "O", "S", "\"">>>>) }
    ELSE IF path = usrLibOsRelease
    THEN { MissingFile, File(<<<<"I", "D", "=", "u", "s", "r">>, <<"V", "E", "R", "S", "I", "O", "N", "_", "I", "D", "=", "1">>>>) }
    ELSE IF path = etcLsbRelease
    THEN { MissingFile, File(<<<<"D", "I", "S", "T", "R", "I", "B", "_", "I", "D", "=", "Q", "t">>, <<"D", "I", "S", "T", "R", "I", "B", "_", "R", "E", "L", "E", "A", "S", "E", "=", "6">>>>) }
    ELSE IF path = etcQtRelease
    THEN { MissingFile, File(<<<<"Q", "t", " ", "O", "S", " ", "6", " ", "(", "s", "i", "x", ")">>>>) }
    ELSE IF path = etcRedHatRelease
    THEN { MissingFile, File(<<<<"R", "e", "d", " ", "Q", "t", " ", "r", "e", "l", "e", "a", "s", "e", " ", "6", " ", "(", "s", "i", "x", ")">>>>) }
    ELSE { MissingFile, File(<<<<"1", "2", "/", "s", "i", "d">>>>) }

ReleasePaths ==
    { etcOsRelease, usrLibOsRelease, etcLsbRelease, etcQtRelease,
      etcRedHatRelease, etcDebianVersion }

\* What uname() may give.
UtsNames ==
    { [ok |-> FALSE, sysname |-> <<>>, release |-> <<>>],
      [ok |-> TRUE, sysname |-> <<"L", "i", "n", "u", "x">>, release |-> <<"5", ".", "4">>] }

\* QUnixOSVersion, default-constructed
emptyVersion == [productType |-> <<>>, productVersion |-> <<>>, prettyName |-> <<>>]

\* The bytes of a file: its lines, a '\n' after each.
RECURSIVE bytesOf(_)
bytesOf(lines) ==
    IF lines = <<>> THEN <<>>
    ELSE Head(lines) \o <<"\n">> \o bytesOf(Tail(lines))

isSpace(c) == c \in {" ", "\n", "\t", "\r"}

\* QByteArray::trimmed()
RECURSIVE trimmed(_)
trimmed(b) ==
    IF b = <<>> THEN b
    ELSE IF isSpace(b[1]) THEN trimmed(Tail(b))
    ELSE IF isSpace(b[Len(b)]) THEN trimmed(SubSeq(b, 1, Len(b) - 1))
    ELSE b

\* QByteArray::startsWith
startsWith(line, key) ==
    Len(line) >= Len(key) /\ SubSeq(line, 1, Len(key)) = key

\* QByteArray::indexOf(pat, from): a 0-based index, or -1
indexOf(b, pat, from) ==
    LET found == { i \in from..(Len(b) - Len(pat)) : SubSeq(b, i + 1, i + Len(pat)) = pat }
    IN  IF found = {} THEN -1
        ELSE CHOOSE i \in found : \A j \in found : i <= j

\* QByteArray::mid(pos, len) for pos >= 0; len < 0 means the rest
mid(b, pos, len) ==
    IF pos > Len(b) THEN <<>>
    ELSE IF len < 0 \/ pos + len > Len(b) THEN SubSeq(b, pos + 1, Len(b))
    ELSE SubSeq(b, pos + 1, pos + len)

\* unquote(begin, end) on the characters from begin to end
unquote(b) ==
    IF b # <<>> /\ b[1] = "\""
    THEN SubSeq(b, 2, Len(b) - 1)
    ELSE b

\* getEtcFileContent(filename): empty when the file cannot be opened
getEtcFileContent(f, filename) ==
    IF filename \in DOMAIN f /\ f[filename].exists
    THEN f[filename].lines
    ELSE <<>>

\* readEtcFile, lines 2700-2724: the loop over the lines
RECURSIVE readLines(_, _, _, _, _)
readLines(v, lines, idKey, versionKey, prettyNameKey) ==
    IF lines = <<>> THEN v
    ELSE LET line == Head(lines)
             v1 == IF startsWith(line, idKey)
                   THEN [v EXCEPT !.productType =
                            unquote(SubSeq(line, Len(idKey) + 1, Len(line)))]
                   ELSE IF startsWith(line, prettyNameKey)
                   THEN [v EXCEPT !.prettyName =
                            unquote(SubSeq(line, Len(prettyNameKey) + 1, Len(line)))]
                   ELSE IF startsWith(line, versionKey)
                   THEN [v EXCEPT !.productVersion =
                            unquote(SubSeq(line, Len(versionKey) + 1, Len(line)))]
                   ELSE v
         IN  readLines(v1, Tail(lines), idKey, versionKey, prettyNameKey)

\* readEtcFile(v, filename, idKey, versionKey, prettyNameKey): the return
\* value and v afterwards
readEtcFile(v, f, filename, idKey, versionKey, prettyNameKey) ==
    LET buffer == getEtcFileContent(f, filename)
    IN  IF buffer = <<>>
        THEN [ok |-> FALSE, v |-> v]
        ELSE [ok |-> TRUE, v |-> readLines(v, buffer, idKey, versionKey, prettyNameKey)]

\* readOsRelease(v): the return value, v afterwards, and the files opened
readOsRelease(v, f) ==
    LET id == <<"I", "D", "=">>
        versionId == <<"V", "E", "R", "S", "I", "O", "N", "_", "I", "D", "=">>
        prettyName == <<"P", "R", "E", "T", "T", "Y", "_", "N", "A", "M", "E", "=">>
        a == readEtcFile(v, f, etcOsRelease, id, versionId, prettyName)
        b == readEtcFile(a.v, f, usrLibOsRelease, id, versionId, prettyName)
    IN  IF a.ok
        THEN [ok |-> TRUE, v |-> a.v, opened |-> <<etcOsRelease>>]
        ELSE [ok |-> b.ok, v |-> b.v, opened |-> <<etcOsRelease, usrLibOsRelease>>]

\* readEtcLsbRelease(v)
readEtcLsbRelease(v, f) ==
    LET a == readEtcFile(v, f, etcLsbRelease, <<"D", "I", "S", "T", "R", "I", "B", "_", "I", "D", "=">>, <<"D", "I", "S", "T", "R", "I", "B", "_", "R", "E", "L", "E", "A", "S", "E", "=">>,
                         <<"D", "I", "S", "T", "R", "I", "B", "_", "D", "E", "S", "C", "R", "I", "P", "T", "I", "O", "N", "=">>)
        distrorelease == <<"/", "e", "t", "c", "/">> \o toLower(a.v.productType) \o <<"-", "r", "e", "l", "e", "a", "s", "e">>
        hasFile == distrorelease \in DOMAIN f /\ f[distrorelease].exists
        buffer == bytesOf(getEtcFileContent(f, distrorelease))
        v1 == IF /\ a.ok
                 /\ (a.v.prettyName = <<>> \/ a.v.prettyName = a.v.productType)
                 /\ hasFile
                 /\ Len(buffer) > Len(a.v.prettyName)
              THEN [a.v EXCEPT !.prettyName = trimmed(buffer)]
              ELSE a.v
    IN  [ok |-> a.ok /\ ~(v1.productType = <<>> /\ v1.productVersion = <<>>),
         v |-> v1]

\* getEtcFileFirstLine(filename)
getEtcFileFirstLine(f, filename) ==
    LET buffer == getEtcFileContent(f, filename)
    IN  IF buffer = <<>> THEN <<>> ELSE trimmed(Head(buffer))

\* readEtcRedHatRelease(v)
readEtcRedHatRelease(v, f) ==
    LET line == getEtcFileFirstLine(f, etcRedHatRelease)
        keyword == <<"r", "e", "l", "e", "a", "s", "e", " ">>
        releaseIndex == indexOf(line, keyword, 0)
        spaceIndex == indexOf(line, <<" ">>, releaseIndex + Len(keyword))
    IN  IF line = <<>>
        THEN [ok |-> FALSE, v |-> v]
        ELSE [ok |-> TRUE,
              v |-> [prettyName |-> line,
                     productType |-> remove(mid(line, 0, releaseIndex), " "),
                     productVersion |->
                         mid(line, releaseIndex + Len(keyword),
                             IF spaceIndex > -1
                             THEN spaceIndex - releaseIndex - Len(keyword)
                             ELSE -1)]]

\* readEtcDebianVersion(v)
readEtcDebianVersion(v, f) ==
    LET line == getEtcFileFirstLine(f, etcDebianVersion)
    IN  IF line = <<>>
        THEN [ok |-> FALSE, v |-> v]
        ELSE [ok |-> TRUE,
              v |-> [v EXCEPT !.productType = <<"D", "e", "b", "i", "a", "n">>, !.productVersion = line]]

\* findUnixOsVersion(v) on a default-constructed v: v afterwards and the
\* files readOsRelease opened
findUnixOsVersion(f) ==
    LET a == readOsRelease(emptyVersion, f)
        b == readEtcLsbRelease(a.v, f)
        c == readEtcRedHatRelease(b.v, f)
        d == readEtcDebianVersion(c.v, f)
    IN  [v |-> IF a.ok THEN a.v
               ELSE IF b.ok THEN b.v
               ELSE IF c.ok THEN c.v
               ELSE d.v,
         opened |-> a.opened]

\* QSysInfo::kernelType(), Q_OS_UNIX
kernelType(u) == IF u.ok THEN toLower(u.sysname) ELSE unknownText

\* QSysInfo::kernelVersion(), not Q_OS_WIN
kernelVersion(u) == IF u.ok THEN u.release ELSE <<>>

\* QSysInfo::productType(), USE_ETC_OS_RELEASE
productType(f) ==
    LET unixOsVersion == findUnixOsVersion(f).v
    IN  IF unixOsVersion.productType # <<>>
        THEN unixOsVersion.productType
        ELSE unknownText

\* QSysInfo::prettyProductName(), Q_OS_UNIX with USE_ETC_OS_RELEASE: the
\* value and the return statement that gave it
prettyProductName(f, u) ==
    LET unixOsVersion == findUnixOsVersion(f).v
    IN  IF unixOsVersion.prettyName # <<>>
        THEN [value |-> unixOsVersion.prettyName, from |-> "prettyName"]
        ELSE IF u.ok
        THEN [value |-> u.sysname \o <<" ">> \o u.release, from |-> "uname"]
        ELSE [value |-> unknownText, from |-> "unknownText"]

UnixStart ==
    /\ fs \in { f \in [ReleasePaths -> UNION { FileChoices(p) : p \in ReleasePaths }] :
                  \A p \in ReleasePaths : f[p] \in FileChoices(p) }
    /\ utsname \in UtsNames
    /\ ptypeRet = NullString
    /\ prettyRet = NullString
    /\ prettyFrom = "none"
    /\ ktypeRet = NullString
    /\ kverRet = NullString
    /\ opened = <<>>

UnixIdle ==
    /\ fs = <<>>
    /\ utsname = <<>>
    /\ ptypeRet = NullString
    /\ prettyRet = NullString
    /\ prettyFrom = "idle"
    /\ ktypeRet = NullString
    /\ kverRet = NullString
    /\ opened = <<>>

\* The call QSysInfo::productType().
CallProductType ==
    /\ ptypeRet = NullString
    /\ ptypeRet' = productType(fs)
    /\ opened' = findUnixOsVersion(fs).opened
    /\ UNCHANGED <<fs, utsname, prettyRet, prettyFrom, ktypeRet, kverRet>>
    /\ UNCHANGED notUnix

\* The call QSysInfo::prettyProductName().
CallPrettyProductName ==
    /\ prettyRet = NullString
    /\ prettyRet' = prettyProductName(fs, utsname).value
    /\ prettyFrom' = prettyProductName(fs, utsname).from
    /\ opened' = findUnixOsVersion(fs).opened
    /\ UNCHANGED <<fs, utsname, ptypeRet, ktypeRet, kverRet>>
    /\ UNCHANGED notUnix

\* The call QSysInfo::kernelType().
CallKernelType ==
    /\ ktypeRet = NullString
    /\ ktypeRet' = kernelType(utsname)
    /\ UNCHANGED <<fs, utsname, ptypeRet, prettyRet, prettyFrom, kverRet, opened>>
    /\ UNCHANGED notUnix

\* The call QSysInfo::kernelVersion().
CallKernelVersion ==
    /\ kverRet = NullString
    /\ kverRet' = kernelVersion(utsname)
    /\ UNCHANGED <<fs, utsname, ptypeRet, prettyRet, prettyFrom, ktypeRet, opened>>
    /\ UNCHANGED notUnix

UnixNext ==
    \/ CallProductType
    \/ CallPrettyProductName
    \/ CallKernelType
    \/ CallKernelVersion

(***************************************************************************)
(* QPollingFileSystemWatcherEngine (qfilesystemwatcher_polling.cpp)        *)
(* A path is a sequence of tokens: a name, and "/" after it or not.        *)
(***************************************************************************)

\* The objects of the file system and which of them are directories.
DiskObjects == {"f", "d"}
isDirObject(o) == o = "d"

\* The paths a caller may pass.
WatchPaths == { <<"f">>, <<"d">>, <<"d", "/">> }

\* Longest list of paths passed in one call.
MaxPaths == 2

\* Highest state stamp of an object: each change on disk gives a new one.
MaxStamp == 1

\* QString::endsWith(QChar c)
endsWith(path, c) == path # <<>> /\ path[Len(path)] = c

\* QStringList::contains
contains(list, path) == \E i \in 1..Len(list) : list[i] = path

\* QStringList::removeAll
removeAll(list, path) == SelectSeq(list, LAMBDA x : x # path)

\* QHash::insert: the value of an existing key is replaced
insert(map, key, value) ==
    [k \in DOMAIN map \cup {key} |-> IF k = key THEN value ELSE map[k]]

\* QHash::remove / QHash::erase
erase(map, key) == [k \in DOMAIN map \ {key} |-> map[k]]

\* QFileInfo::absoluteDir().entryList(): the listing of the directory a
\* path lies in. A path that ends in "/" lies in the directory it names,
\* whose listing changes with each change of the directory; any other path
\* lies in the parent directory, which lists the objects that exist.
entryList(dk, path) ==
    IF endsWith(path, "/") THEN <<path[1], dk[path[1]].stamp>>
    ELSE <<".", { o \in DiskObjects : dk[o].exists }>>

\* QFileInfo(path) on the file system dk: what it reports, and what a
\* snapshot of it keeps. A path with a trailing "/" names a directory only.
\* The listing is taken for a directory only.
QFileInfo(dk, path) ==
    LET o == path[1]
        there == dk[o].exists /\ (endsWith(path, "/") => isDirObject(o))
    IN  [exists |-> there,
         isDir |-> there /\ isDirObject(o),
         stamp |-> IF there THEN dk[o].stamp ELSE 0,
         entries |-> IF there /\ isDirObject(o) THEN entryList(dk, path) ELSE <<>>]

\* Mutant: a path already in the caller's list is watched again.
alreadyListed_Never(list, path) == FALSE

\* addPaths, lines 64 and 71: directories->contains(path), files->contains(path)
alreadyListed(list, path) == contains(list, path)

\* addPaths, lines 58-77: the loop. st holds unhandled, the caller's two
\* lists and the engine's two maps.
RECURSIVE addLoop(_, _, _)
addLoop(st, paths, dk) ==
    IF paths = <<>> THEN st
    ELSE LET path == Head(paths)
             fi == QFileInfo(dk, path)
             skip == [st EXCEPT !.unhandled = Append(@, path)]
             st1 == IF ~fi.exists THEN skip
                    ELSE IF fi.isDir
                    THEN IF alreadyListed(st.directoryList, path) THEN skip
                         ELSE [st EXCEPT
                                 !.directoryList = Append(@, path),
                                 !.directories =
                                     insert(@, path,
                                            IF ~endsWith(path, "/")
                                            THEN QFileInfo(dk, Append(path, "/"))
                                            ELSE fi)]
                    ELSE IF alreadyListed(st.fileList, path) THEN skip
                         ELSE [st EXCEPT
                                 !.fileList = Append(@, path),
                                 !.files = insert(@, path, fi)]
         IN  addLoop(st1, Tail(paths), dk)

\* removePaths, lines 93-101: the loop.
RECURSIVE removeLoop(_, _)
removeLoop(st, paths) ==
    IF paths = <<>> THEN st
    ELSE LET path == Head(paths)
             st1 == IF path \in DOMAIN st.directories
                    THEN [st EXCEPT !.directories = erase(@, path),
                                    !.directoryList = removeAll(@, path)]
                    ELSE IF path \in DOMAIN st.files
                    THEN [st EXCEPT !.files = erase(@, path),
                                    !.fileList = removeAll(@, path)]
                    ELSE [st EXCEPT !.unhandled = Append(@, path)]
         IN  removeLoop(st1, Tail(paths))

\* FileInfo::operator!=(const QFileInfo &): whether the snapshot differs from
\* what is on disk now.
differs(snapshot, fi) ==
    \/ fi.isDir /\ snapshot.entries # fi.entries
    \/ snapshot.stamp # fi.stamp

\* Mutant: the poll looks at a watched directory under the path as given.
dirInfo_AsGiven(dk, path) == QFileInfo(dk, path)

\* timeout, lines 129-131: the QFileInfo of a watched directory
dirInfo(dk, path) ==
    IF ~endsWith(path, "/") THEN QFileInfo(dk, Append(path, "/")) ELSE QFileInfo(dk, path)

\* timeout, lines 113-125: the files that stay watched, with their snapshots
filesAfterPoll(dk) ==
    [path \in { p \in DOMAIN files : QFileInfo(dk, p).exists } |->
        IF differs(files[path], QFileInfo(dk, path))
        THEN QFileInfo(dk, path)
        ELSE files[path]]

\* timeout, lines 113-125: the fileChanged signals
fileSignals(dk) ==
    { <<"fileChanged", p, TRUE>> : p \in { q \in DOMAIN files : ~QFileInfo(dk, q).exists } }
    \cup
    { <<"fileChanged", p, FALSE>> :
        p \in { q \in DOMAIN files :
                  QFileInfo(dk, q).exists /\ differs(files[q], QFileInfo(dk, q)) } }

\* timeout, lines 132-146: a watched directory is dropped when it does not
\* exist, or when it differs and is gone after fi.refresh(); dk is the file
\* system at the first look and dk2 the one fi.refresh() sees.
dirGone(dk, dk2, path) ==
    \/ ~dirInfo(dk, path).exists
    \/ /\ differs(directories[path], dirInfo(dk, path))
       /\ ~dirInfo(dk2, path).exists

\* timeout, lines 127-148: the directories that stay watched
directoriesAfterPoll(dk, dk2) ==
    [path \in { p \in DOMAIN directories : ~dirGone(dk, dk2, p) } |->
        IF differs(directories[path], dirInfo(dk, path))
        THEN dirInfo(dk2, path)
        ELSE directories[path]]

\* timeout, lines 127-148: the directoryChanged signals
directorySignals(dk, dk2) ==
    { <<"directoryChanged", p, TRUE>> :
        p \in { q \in DOMAIN directories : dirGone(dk, dk2, q) } }
    \cup
    { <<"directoryChanged", p, FALSE>> :
        p \in { q \in DOMAIN directories :
                  ~dirGone(dk, dk2, q) /\ differs(directories[q], dirInfo(dk, q)) } }

WatchStart ==
    /\ disk \in [DiskObjects -> [exists : BOOLEAN, stamp : {0}]]
    /\ fileList = <<>>
    /\ directoryList = <<>>
    /\ files = <<>>
    /\ directories = <<>>
    /\ timerActive = FALSE
    /\ unhandled = <<>>
    /\ emitted = {}
    /\ watchOp = [name |-> "none", paths |-> <<>>]

WatchIdle ==
    /\ disk = <<>>
    /\ fileList = <<>>
    /\ directoryList = <<>>
    /\ files = <<>>
    /\ directories = <<>>
    /\ timerActive = FALSE
    /\ unhandled = <<>>
    /\ emitted = {}
    /\ watchOp = [name |-> "idle", paths |-> <<>>]

\* The lists of paths a caller may pass.
PathLists == UNION { [1..n -> WatchPaths] : n \in 1..MaxPaths }

\* QPollingFileSystemWatcherEngine::addPaths(paths, files, directories)
addPaths(paths) ==
    /\ watchOp.name = "none"
    /\ LET st == addLoop([unhandled |-> <<>>, fileList |-> fileList,
                          directoryList |-> directoryList,
                          files |-> files, directories |-> directories],
                         paths, disk)
       IN  /\ fileList' = st.fileList
           /\ directoryList' = st.directoryList
           /\ files' = st.files
           /\ directories' = st.directories
           /\ timerActive' =
                 IF (st.files # <<>> \/ st.directories # <<>>) /\ ~timerActive
                 THEN TRUE
                 ELSE timerActive
           /\ unhandled' = st.unhandled
           /\ emitted' = {}
           /\ watchOp' = [name |-> "addPaths", paths |-> paths]
           /\ UNCHANGED disk
           /\ UNCHANGED notWatch

\* QPollingFileSystemWatcherEngine::removePaths(paths, files, directories)
removePaths(paths) ==
    /\ watchOp.name = "none"
    /\ LET st == removeLoop([unhandled |-> <<>>, fileList |-> fileList,
                             directoryList |-> directoryList,
                             files |-> files, directories |-> directories],
                            paths)
       IN  /\ fileList' = st.fileList
           /\ directoryList' = st.directoryList
           /\ files' = st.files
           /\ directories' = st.directories
           /\ timerActive' =
                 IF st.files = <<>> /\ st.directories = <<>>
                 THEN FALSE
                 ELSE timerActive
           /\ unhandled' = st.unhandled
           /\ emitted' = {}
           /\ watchOp' = [name |-> "removePaths", paths |-> paths]
           /\ UNCHANGED disk
           /\ UNCHANGED notWatch

\* QPollingFileSystemWatcherEngine::timeout(), fired by the running timer.
\* The directories in vanish are deleted by another process during the
\* poll, after the first look at them and before fi.refresh().
timeout(vanish) ==
    /\ watchOp.name = "none"
    /\ timerActive
    /\ \A o \in vanish : isDirObject(o) /\ disk[o].exists
    /\ LET dk2 == [o \in DiskObjects |->
                      IF o \in vanish THEN [disk[o] EXCEPT !.exists = FALSE]
                      ELSE disk[o]]
       IN  /\ files' = filesAfterPoll(disk)
           /\ directories' = directoriesAfterPoll(disk, dk2)
           /\ emitted' = fileSignals(disk) \cup directorySignals(disk, dk2)
           /\ disk' = dk2
    /\ unhandled' = <<>>
    /\ watchOp' = [name |-> "timeout", paths |-> <<>>]
    /\ UNCHANGED <<fileList, directoryList, timerActive>>
    /\ UNCHANGED notWatch

\* A slot of the owner of the two lists (QFileSystemWatcher) runs on a
\* signal that reports a path removed, and takes the path off its list.
pathRemoved(path) ==
    /\ \/ <<"fileChanged", path, TRUE>> \in emitted /\ contains(fileList, path)
       \/ <<"directoryChanged", path, TRUE>> \in emitted /\ contains(directoryList, path)
    /\ fileList' = IF <<"fileChanged", path, TRUE>> \in emitted
                   THEN removeAll(fileList, path) ELSE fileList
    /\ directoryList' = IF <<"directoryChanged", path, TRUE>> \in emitted
                        THEN removeAll(directoryList, path) ELSE directoryList
    /\ UNCHANGED <<disk, files, directories, timerActive, unhandled, emitted, watchOp>>
    /\ UNCHANGED notWatch

\* The caller is done with the results of the operation.
resultsTaken ==
    /\ watchOp.name \notin {"none", "idle"}
    /\ unhandled' = <<>>
    /\ emitted' = {}
    /\ watchOp' = [name |-> "none", paths |-> <<>>]
    /\ UNCHANGED <<disk, fileList, directoryList, files, directories, timerActive>>
    /\ UNCHANGED notWatch

\* Another process changes, deletes or creates an object on disk.
touch(o) ==
    /\ watchOp.name = "none"
    /\ disk[o].exists
    /\ disk[o].stamp < MaxStamp
    /\ disk' = [disk EXCEPT ![o].stamp = @ + 1]
    /\ UNCHANGED <<fileList, directoryList, files, directories, timerActive,
                   unhandled, emitted, watchOp>>
    /\ UNCHANGED notWatch

unlink(o) ==
    /\ watchOp.name = "none"
    /\ disk[o].exists
    /\ disk' = [disk EXCEPT ![o].exists = FALSE]
    /\ UNCHANGED <<fileList, directoryList, files, directories, timerActive,
                   unhandled, emitted, watchOp>>
    /\ UNCHANGED notWatch

create(o) ==
    /\ watchOp.name = "none"
    /\ ~disk[o].exists
    /\ disk[o].stamp < MaxStamp
    /\ disk' = [disk EXCEPT ![o] = [exists |-> TRUE, stamp |-> @.stamp + 1]]
    /\ UNCHANGED <<fileList, directoryList, files, directories, timerActive,
                   unhandled, emitted, watchOp>>
    /\ UNCHANGED notWatch

WatchNext ==
    \/ \E paths \in PathLists : addPaths(paths)
    \/ \E paths \in PathLists : removePaths(paths)
    \/ \E vanish \in SUBSET DiskObjects : timeout(vanish)
    \/ \E path \in WatchPaths : pathRemoved(path)
    \/ resultsTaken
    \/ \E o \in DiskObjects : touch(o)
    \/ \E o \in DiskObjects : unlink(o)
    \/ \E o \in DiskObjects : create(o)

(***************************************************************************)
(* Android assets (qandroidassetsfileenginehandler.cpp): FolderIterator,   *)
(* its cache and AndroidAbstractFileEngineIterator. A pointer is the index *)
(* of an object in heap, 0 the null pointer. Each thread owns one          *)
(* AndroidAbstractFileEngineIterator and runs while (hasNext()) next().    *)
(***************************************************************************)
NumThreads == 2
Threads == 1..NumThreads

\* The FolderIterator objects that can be built before the model stops
\* building more.
MaxObjects == 4

assetsPrefix == <<"a", "s", "s", "e", "t", "s", ":">>
prefixSize == 7

\* The asset folders of the application: "t" holds the file "x" and the
\* folder "s", which holds the file "y"; "e" is empty. Folders are listed
\* with a trailing "/".
listAssetContent(path) ==
    IF path = <<"t">> THEN << <<"x">>, <<"s", "/">> >>
    ELSE IF path = <<"t", "/", "s">> THEN << <<"y">> >>
    ELSE <<>>

\* The paths an iterator is created for.
EnginePaths == { <<"a", "s", "s", "e", "t", "s", ":", "/", "t", "/">>, <<"a", "s", "s", "e", "t", "s", ":", "/", "e">> }

\* The values of the environment variable the cache is built with; 0 when
\* the variable is unset.
EnvValues == {0, 51}

\* QString::replace(QLatin1String("//"), QLatin1String("/"))
RECURSIVE replaceSlashes(_)
replaceSlashes(str) ==
    IF Len(str) < 2 THEN str
    ELSE IF str[1] = "/" /\ str[2] = "/"
    THEN <<"/">> \o replaceSlashes(SubSeq(str, 3, Len(str)))
    ELSE <<str[1]>> \o replaceSlashes(Tail(str))

\* cleanedAssetPath(file), lines 53-63
cleanedAssetPath(file) ==
    LET f1 == IF startsWith(file, assetsPrefix)
              THEN SubSeq(file, prefixSize + 1, Len(file)) ELSE file
        f2 == replaceSlashes(f1)
        f3 == IF startsWith(f2, <<"/">>) THEN Tail(f2) ELSE f2
    IN  IF endsWith(f3, "/") THEN SubSeq(f3, 1, Len(f3) - 1) ELSE f3

\* AssetItem::AssetItem(rawName), lines 78-85
AssetItem(rawName) ==
    IF endsWith(rawName, "/")
    THEN [type |-> "Folder", name |-> SubSeq(rawName, 1, Len(rawName) - 1)]
    ELSE [type |-> "File", name |-> rawName]

\* FolderIterator::FolderIterator(path), lines 110-126
FolderIterator(path) ==
    [m_index |-> -1,
     items |-> [i \in 1..Len(listAssetContent(path)) |-> AssetItem(listAssetContent(path)[i])],
     m_path |-> replaceSlashes(assetsPrefix \o <<"/">> \o path \o <<"/">>)]

\* FolderIterator::hasNext(), lines 141-144
hasNext(it) == it.items # <<>> /\ it.m_index + 1 < Len(it.items)

\* FolderIterator::currentFilePath(), lines 134-139, of the item at index i
currentFilePath(it, i) ==
    IF i < 0 \/ i >= Len(it.items) THEN <<>> ELSE it.m_path \o it.items[i + 1].name

\* The size the cache is constructed with, line 161: std::max(50, env)
maxCost(env) == IF env > 50 THEN env ELSE 50

\* QCache::object(key): the pointer stored for key, or 0
object(cache, key) ==
    IF \E i \in 1..Len(cache) : cache[i][1] = key
    THEN cache[CHOOSE i \in 1..Len(cache) : cache[i][1] = key][2]
    ELSE 0

\* QCache::object(key) and QCache::insert make key the most recently used
relink(cache, key, ptr) ==
    << <<key, ptr>> >> \o SelectSeq(cache, LAMBDA e : e[1] # key)

\* QCache::insert(key, object) at cost 1: refused when 1 exceeds the
\* maximum cost; else the least recently used entries go until there is
\* room, and an entry of the same key is replaced.
cacheInsert(cache, key, ptr, max) ==
    IF 1 > max THEN [ok |-> FALSE, cache |-> cache]
    ELSE LET rest == SelectSeq(cache, LAMBDA e : e[1] # key)
             kept == IF Len(rest) > max - 1 THEN SubSeq(rest, 1, max - 1) ELSE rest
         IN  [ok |-> TRUE, cache |-> << <<key, ptr>> >> \o kept]

\* Mutant: fromCache does not wait for the mutex.
tryLock_NoWait(mutex) == TRUE

\* QMutexLocker lock(&m_assetsCacheMutex), line 97: goes on when the mutex
\* is free
tryLock(mutex) == mutex = 0

\* The keys of the cache the model can hold.
AssetKeys == { cleanedAssetPath(p) : p \in EnginePaths } \cup { <<"t", "/", "s">> }

\* A thread crashed, or read a name from outside its vector.
garbage == <<"?">>

AssetsStart ==
    /\ envCacheSize \in EnvValues
    /\ m_assetsCache = <<>>
    /\ m_assetsCacheMutex = 0
    /\ heap = <<>>
    /\ built = [k \in AssetKeys |-> 0]
    /\ apc = [t \in Threads |-> "idle"]
    /\ dirPath = [t \in Threads |-> <<>>]
    /\ callPath = [t \in Threads |-> <<>>]
    /\ folder = [t \in Threads |-> 0]
    /\ idx = [t \in Threads |-> -1]
    /\ m_stack = [t \in Threads |-> <<>>]
    /\ m_currentIterator = [t \in Threads |-> 0]
    /\ seen = [t \in Threads |-> <<>>]

AssetsIdle ==
    /\ envCacheSize = 0
    /\ m_assetsCache = <<>>
    /\ m_assetsCacheMutex = 0
    /\ heap = <<>>
    /\ built = <<>>
    /\ apc = <<>>
    /\ dirPath = <<>>
    /\ callPath = <<>>
    /\ folder = <<>>
    /\ idx = <<>>
    /\ m_stack = <<>>
    /\ m_currentIterator = <<>>
    /\ seen = <<>>

\* m_stack.push_back(...); if (m_stack.last()->empty()) m_stack.pop_back();
\* lines 172-174 and 218-220
pushed(stack, ptr, hp) ==
    IF hp[ptr].items = <<>> THEN stack ELSE Append(stack, ptr)

\* AndroidAbstractFileEngineIterator::hasNext(), lines 196-205: the stack
\* without the exhausted iterators on its top
RECURSIVE popExhausted(_, _)
popExhausted(stack, hp) ==
    IF stack = <<>> THEN stack
    ELSE IF ~hasNext(hp[stack[Len(stack)]])
    THEN popExhausted(SubSeq(stack, 1, Len(stack) - 1), hp)
    ELSE stack

\* AndroidAbstractFileEngine::beginEntryList, line 352, and the constructor
\* of AndroidAbstractFileEngineIterator up to its call of fromCache, line 172
beginEntryList(t, path) ==
    /\ apc[t] = "idle"
    /\ dirPath' = [dirPath EXCEPT ![t] = path]
    /\ callPath' = [callPath EXCEPT ![t] = cleanedAssetPath(path)]
    /\ apc' = [apc EXCEPT ![t] = "lock"]
    /\ UNCHANGED <<envCacheSize, m_assetsCache, m_assetsCacheMutex, heap, built,
                   folder, idx, m_stack, m_currentIterator, seen>>
    /\ UNCHANGED notAssets

\* fromCache, lines 97-99 and 107: the thread takes the mutex and looks the
\* path up; on a hit the cached pointer is returned, the mutex released and
\* the pointer pushed on the caller's stack
fromCache_object(t) ==
    /\ apc[t] = "lock"
    /\ tryLock(m_assetsCacheMutex)
    /\ LET ptr == object(m_assetsCache, callPath[t])
       IN  IF ptr = 0
           THEN /\ apc' = [apc EXCEPT ![t] = "insert"]
                /\ m_assetsCacheMutex' = t
                /\ UNCHANGED <<m_assetsCache, folder, m_stack>>
           ELSE /\ m_assetsCache' = relink(m_assetsCache, callPath[t], ptr)
                /\ m_assetsCacheMutex' = 0
                /\ folder' = [folder EXCEPT ![t] = ptr]
                /\ m_stack' = [m_stack EXCEPT ![t] = pushed(@, ptr, heap)]
                /\ apc' = [apc EXCEPT ![t] = "ready"]
    /\ UNCHANGED <<envCacheSize, heap, built, dirPath, callPath, idx,
                   m_currentIterator, seen>>
    /\ UNCHANGED notAssets

\* fromCache, lines 100-107: on a miss the listing is built and inserted;
\* the pointer is returned, the mutex released and the pointer pushed on the
\* caller's stack. insert() cannot refuse, as the cost 1 never exceeds the
\* maximum cost.
fromCache_insert(t) ==
    /\ apc[t] = "insert"
    /\ Len(heap) < MaxObjects
    /\ LET ptr == Len(heap) + 1
           key == callPath[t]
           res == cacheInsert(m_assetsCache, key, ptr, maxCost(envCacheSize))
           cached == { res.cache[i][1] : i \in 1..Len(res.cache) }
       IN  /\ heap' = Append(heap, FolderIterator(key))
           /\ m_assetsCache' = res.cache
           /\ built' = [k \in AssetKeys |->
                          IF k = key THEN built[k] + 1
                          ELSE IF k \in cached THEN built[k] ELSE 0]
           /\ folder' = [folder EXCEPT ![t] = ptr]
           /\ m_stack' = [m_stack EXCEPT ![t] = pushed(@, ptr, heap')]
    /\ m_assetsCacheMutex' = 0
    /\ apc' = [apc EXCEPT ![t] = "ready"]
    /\ UNCHANGED <<envCacheSize, dirPath, callPath, idx, m_currentIterator, seen>>
    /\ UNCHANGED notAssets

\* AndroidAbstractFileEngineIterator::hasNext(), lines 196-205, as the
\* condition of the caller's loop
iteratorHasNext(t) ==
    /\ apc[t] = "ready"
    /\ m_stack' = [m_stack EXCEPT ![t] = popExhausted(@, heap)]
    /\ apc' = [apc EXCEPT ![t] = IF m_stack'[t] = <<>> THEN "done" ELSE "next"]
    /\ UNCHANGED <<envCacheSize, m_assetsCache, m_assetsCacheMutex, heap, built,
                   dirPath, callPath, folder, idx, m_currentIterator, seen>>
    /\ UNCHANGED notAssets

\* AndroidAbstractFileEngineIterator::next(), lines 209-214, and
\* FolderIterator::next(), lines 148-149: the current iterator is the top of
\* the stack; next() returns nothing when it has no next item
iteratorNext(t) ==
    /\ apc[t] = "next"
    /\ IF m_stack[t] = <<>>
       THEN /\ m_currentIterator' = [m_currentIterator EXCEPT ![t] = 0]
            /\ apc' = [apc EXCEPT ![t] = "ready"]
       ELSE /\ m_currentIterator' = [m_currentIterator EXCEPT ![t] = m_stack[t][Len(m_stack[t])]]
            /\ apc' = [apc EXCEPT ![t] =
                         IF hasNext(heap[m_stack[t][Len(m_stack[t])]]) THEN "read" ELSE "ready"]
    /\ UNCHANGED <<envCacheSize, m_assetsCache, m_assetsCacheMutex, heap, built,
                   dirPath, callPath, folder, idx, m_stack, seen>>
    /\ UNCHANGED notAssets

\* FolderIterator::next(), line 150: ++m_index reads the index; no lock is
\* held
readIndex(t) ==
    /\ apc[t] = "read"
    /\ idx' = [idx EXCEPT ![t] = heap[m_currentIterator[t]].m_index]
    /\ apc' = [apc EXCEPT ![t] = "incr"]
    /\ UNCHANGED <<envCacheSize, m_assetsCache, m_assetsCacheMutex, heap, built,
                   dirPath, callPath, folder, m_stack, m_currentIterator, seen>>
    /\ UNCHANGED notAssets

\* FolderIterator::next(), lines 150-151, and the rest of
\* AndroidAbstractFileEngineIterator::next(), lines 215-222: ++m_index writes
\* the index back, the item at the index is returned, and a folder is
\* entered by a call of fromCache. at() with an index outside the vector is
\* undefined: the thread crashes or returns something that is no name.
writeIndex(t, crash) ==
    /\ apc[t] = "incr"
    /\ LET ptr == m_currentIterator[t]
           i == idx[t] + 1
           it == [heap[ptr] EXCEPT !.m_index = i]
       IN  /\ heap' = [heap EXCEPT ![ptr] = it]
           /\ IF i >= Len(it.items)
              THEN /\ seen' = [seen EXCEPT ![t] = IF crash THEN @ ELSE Append(@, garbage)]
                   /\ apc' = [apc EXCEPT ![t] = IF crash THEN "crashed" ELSE "ready"]
                   /\ UNCHANGED callPath
              ELSE /\ ~crash
                   /\ seen' = [seen EXCEPT ![t] = Append(@, it.items[i + 1].name)]
                   /\ IF it.items[i + 1].type = "Folder"
                      THEN /\ callPath' = [callPath EXCEPT ![t] =
                                              cleanedAssetPath(currentFilePath(it, i))]
                           /\ apc' = [apc EXCEPT ![t] = "lock"]
                      ELSE /\ apc' = [apc EXCEPT ![t] = "ready"]
                           /\ UNCHANGED callPath
    /\ UNCHANGED <<envCacheSize, m_assetsCache, m_assetsCacheMutex, built,
                   dirPath, folder, idx, m_stack, m_currentIterator>>
    /\ UNCHANGED notAssets

AssetsNext ==
    \/ \E t \in Threads, path \in EnginePaths : beginEntryList(t, path)
    \/ \E t \in Threads : fromCache_object(t)
    \/ \E t \in Threads : fromCache_insert(t)
    \/ \E t \in Threads : iteratorHasNext(t)
    \/ \E t \in Threads : iteratorNext(t)
    \/ \E t \in Threads : readIndex(t)
    \/ \E t \in Threads, crash \in BOOLEAN : writeIndex(t, crash)

(***************************************************************************)
(* Platform integration plugins: QLinuxFbIntegrationPlugin,                *)
(* QOffscreenIntegrationPlugin, QWinRTIntegrationPlugin (main.cpp of each) *)
(* A QPlatformIntegration * is a sequence: empty for the null pointer,     *)
(* else the class of the object and what it was constructed with.          *)
(***************************************************************************)
nullIntegration == <<>>

\* The value of pluginRet before the call.
notCalled == <<"none">>

\* The system strings create() is called with.
Systems ==
    { <<>>,
      <<"l", "i", "n", "u", "x", "f", "b">>,
      <<"L", "i", "n", "u", "x", "F", "B">>,
      <<"L", "I", "N", "U", "X", "F", "B">>,
      <<"l", "i", "n", "u", "x", "f">>,
      <<"l", "i", "n", "u", "x", "f", "b", "s">>,
      <<"o", "f", "f", "s", "c", "r", "e", "e", "n">>,
      <<"O", "f", "f", "S", "c", "r", "e", "e", "n">>,
      <<"o", "f", "f", "s", "c", "r", "e", "e">>,
      <<"w", "i", "n", "r", "t">>,
      <<"W", "i", "n", "R", "T">>,
      <<"W", "I", "N", "R", "T">>,
      <<"w", "i", "n", "r", "t", "2">>,
      <<"w", "i", "n">>,
      <<"x", "c", "b">>,
      <<"m", "i", "n", "i", "m", "a", "l">> }

\* The parameter lists create() is called with.
ParamLists == { <<>>, << <<"f", "b">> >> }

Plugins == {"linuxfb", "offscreen", "winrt"}

\* The code of a character: digits, then upper case, then lower case.
ord(c) ==
    LET alphabet == DigitChars \o UpperCase \o LowerCase
    IN  CHOOSE i \in 1..Len(alphabet) : alphabet[i] = c

\* Mutant: the comparison does not fold the case.
RECURSIVE compare_CaseSensitive(_, _)
compare_CaseSensitive(s1, s2) ==
    IF s1 = <<>> /\ s2 = <<>> THEN 0
    ELSE IF s1 = <<>> THEN -1
    ELSE IF s2 = <<>> THEN 1
    ELSE IF s1[1] = s2[1] THEN compare_CaseSensitive(Tail(s1), Tail(s2))
    ELSE ord(s1[1]) - ord(s2[1])

\* QString::compare(QLatin1String, Qt::CaseInsensitive): negative, zero or
\* positive as the case-folded s1 is less than, equal to or greater than the
\* case-folded s2
RECURSIVE compare(_, _)
compare(s1, s2) ==
    IF s1 = <<>> /\ s2 = <<>> THEN 0
    ELSE IF s1 = <<>> THEN -1
    ELSE IF s2 = <<>> THEN 1
    ELSE IF toLowerChar(s1[1]) = toLowerChar(s2[1]) THEN compare(Tail(s1), Tail(s2))
    ELSE ord(toLowerChar(s1[1])) - ord(toLowerChar(s2[1]))

\* new QLinuxFbIntegration(paramList): always an object
QLinuxFbIntegration(params) == <<"QLinuxFbIntegration", params>>

\* QOffscreenIntegration::createOffscreenIntegration(): always an object
createOffscreenIntegration == <<"QOffscreenIntegration">>

\* QWinRTIntegration::create(): the new integration when its set-up
\* succeeded, else the null pointer
QWinRTIntegration_create(ok) ==
    IF ok THEN <<"QWinRTIntegration">> ELSE nullIntegration

\* QLinuxFbIntegrationPlugin::create(system, paramList)
QLinuxFbIntegrationPlugin_create(sys, params) ==
    IF compare(sys, <<"l", "i", "n", "u", "x", "f", "b">>) = 0
    THEN QLinuxFbIntegration(params)
    ELSE nullIntegration

\* QOffscreenIntegrationPlugin::create(system, paramList)
QOffscreenIntegrationPlugin_create(sys, params) ==
    IF compare(sys, <<"o", "f", "f", "s", "c", "r", "e", "e", "n">>) = 0
    THEN createOffscreenIntegration
    ELSE nullIntegration

\* QWinRTIntegrationPlugin::create(system, paramList)
QWinRTIntegrationPlugin_create(sys, params, ok) ==
    IF compare(sys, <<"w", "i", "n", "r", "t">>) = 0
    THEN QWinRTIntegration_create(ok)
    ELSE nullIntegration

PluginStart ==
    /\ system \in Systems
    /\ paramList \in ParamLists
    /\ succeeded \in BOOLEAN
    /\ pluginRet = [p \in Plugins |-> notCalled]

PluginIdle ==
    /\ system = <<>>
    /\ paramList = <<>>
    /\ succeeded = FALSE
    /\ pluginRet = <<>>

\* The plugin loader calls create() of the linuxfb plugin.
CreateLinuxFb ==
    /\ pluginRet["linuxfb"] = notCalled
    /\ pluginRet' = [pluginRet EXCEPT !["linuxfb"] =
                        QLinuxFbIntegrationPlugin_create(system, paramList)]
    /\ UNCHANGED <<system, paramList, succeeded>>
    /\ UNCHANGED notPlugin

\* The plugin loader calls create() of the offscreen plugin.
CreateOffscreen ==
    /\ pluginRet["offscreen"] = notCalled
    /\ pluginRet' = [pluginRet EXCEPT !["offscreen"] =
                        QOffscreenIntegrationPlugin_create(system, paramList)]
    /\ UNCHANGED <<system, paramList, succeeded>>
    /\ UNCHANGED notPlugin

\* The plugin loader calls create() of the winrt plugin.
CreateWinRT ==
    /\ pluginRet["winrt"] = notCalled
    /\ pluginRet' = [pluginRet EXCEPT !["winrt"] =
                        QWinRTIntegrationPlugin_create(system, paramList, succeeded)]
    /\ UNCHANGED <<system, paramList, succeeded>>
    /\ UNCHANGED notPlugin

PluginNext ==
    \/ CreateLinuxFb
    \/ CreateOffscreen
    \/ CreateWinRT

(***************************************************************************)
(* Specifications: one per part, the other parts idle                      *)
(***************************************************************************)

ProxyInit == ProxyStart /\ LibIdle /\ SqrtIdle /\ WinIdle /\ UnixIdle /\ WatchIdle /\ AssetsIdle /\ PluginIdle

SpecProxy == ProxyInit /\ [][ProxyNext]_vars

LibInit == LibStart /\ ProxyIdle /\ SqrtIdle /\ WinIdle /\ UnixIdle /\ WatchIdle /\ AssetsIdle /\ PluginIdle

SpecLib == LibInit /\ [][LibNext]_vars

SqrtInit == SqrtStart /\ ProxyIdle /\ LibIdle /\ WinIdle /\ UnixIdle /\ WatchIdle /\ AssetsIdle /\ PluginIdle

SpecSqrt == SqrtInit /\ [][SqrtNext]_vars

WinInit == WinStart /\ ProxyIdle /\ LibIdle /\ SqrtIdle /\ UnixIdle /\ WatchIdle /\ AssetsIdle /\ PluginIdle

SpecWin == WinInit /\ [][WinNext]_vars

UnixInit == UnixStart /\ ProxyIdle /\ LibIdle /\ SqrtIdle /\ WinIdle /\ WatchIdle /\ AssetsIdle /\ PluginIdle

SpecUnix == UnixInit /\ [][UnixNext]_vars

WatchInit == WatchStart /\ ProxyIdle /\ LibIdle /\ SqrtIdle /\ WinIdle /\ UnixIdle /\ AssetsIdle /\ PluginIdle

SpecWatch == WatchInit /\ [][WatchNext]_vars

AssetsInit == AssetsStart /\ ProxyIdle /\ LibIdle /\ SqrtIdle /\ WinIdle /\ UnixIdle /\ WatchIdle /\ PluginIdle

SpecAssets == AssetsInit /\ [][AssetsNext]_vars

PluginInit == PluginStart /\ ProxyIdle /\ LibIdle /\ SqrtIdle /\ WinIdle /\ UnixIdle /\ WatchIdle /\ AssetsIdle

SpecPlugin == PluginInit /\ [][PluginNext]_vars

(***************************************************************************)
(* Properties                                                              *)
(***************************************************************************)

\* C1: d->model is never null: it is a live source model or the static
\* placeholder, and sourceModel() returns nullptr exactly on the placeholder.
C1_ModelNeverNull ==
    /\ model # nullptr
    /\ model = staticEmptyModel \/ model \in alive
    /\ (sourceModel = nullptr) <=> (model = staticEmptyModel)

\* C1 witness: the current source model was destroyed and the proxy fell
\* back to the placeholder it had left before.
C1_Witness ==
    /\ op.name = "destroyed"
    /\ model = staticEmptyModel
    /\ conn[staticEmptyModel] = 0
    /\ alive # {}

\* C2: a setSourceModel call notifies exactly once when it changes the value
\* of sourceModel(), and otherwise notifies nothing and leaves the
\* connections and the pointer alone.
C2_NotifyIffChanged ==
    [][op'.name = "setSourceModel" =>
         /\ notified' = (IF sourceModel' # sourceModel THEN 1 ELSE 0)
         /\ (sourceModel' = sourceModel => conn' = conn /\ model' = model)]_vars

\* C2 witness: setSourceModel(nullptr) on the placeholder, and nothing sent.
C2_Witness ==
    /\ op = [name |-> "setSourceModel", arg |-> nullptr]
    /\ model = staticEmptyModel
    /\ notified = 0
    /\ conn[staticEmptyModel] = 1

\* The order the comment of load_sys promises.
C3_Expected ==
    IF pluginState = "IsAPlugin" THEN <<fileName>>
    ELSE IF absolute THEN <<fileName, fileName \o dllSuffix>>
    ELSE <<fileName \o dllSuffix, fileName>>

\* C3: load_sys tries the names in the promised order: what it tried is a
\* non-empty prefix of the expected list (so a plugin never gets ".dll"),
\* and all of it when no name was found.
C3_AttemptOrder ==
    libOp = "load_sys" =>
        /\ Len(tried) >= 1
        /\ Len(tried) <= Len(C3_Expected)
        /\ \A i \in 1..Len(tried) : tried[i] = C3_Expected[i]
        /\ (\A n \in NativeCandidates : dlls[n] = "ERROR_MOD_NOT_FOUND")
              => tried = C3_Expected

\* C3 witness: a non-plugin, non-absolute library for which the suffixed
\* name was not found and the plain name was tried second.
C3_Witness ==
    /\ libOp = "load_sys"
    /\ ~absolute
    /\ pluginState # "IsAPlugin"
    /\ tried = <<fileName \o dllSuffix, fileName>>
    /\ pHnd = toNativeSeparators(fileName)

\* C4: load_sys stops at the first attempt that yields a handle or fails
\* with an error other than ERROR_MOD_NOT_FOUND; it returns true exactly when
\* it has a handle, with errorString cleared, and otherwise false with a
\* "Cannot load library" message.
C4_StopAndResult ==
    libOp = "load_sys" =>
        LET n == Len(tried)
            last == dlls[toNativeSeparators(tried[n])]
        IN  /\ \A i \in 1..(n - 1) :
                  dlls[toNativeSeparators(tried[i])] = "ERROR_MOD_NOT_FOUND"
            /\ last = "ERROR_MOD_NOT_FOUND" => n = Len(C3_Expected)
            /\ ret <=> (last = "loaded")
            /\ ret <=> (pHnd # NullHandle)
            /\ ret => errorString = <<>>
            /\ ~ret => /\ errorString # <<>>
                       /\ errorString[1] = "Cannot load library %1: %2"

\* C4 witness: the first attempt failed with another error although the
\* second name would have loaded; nothing else was tried and load_sys failed.
C4_Witness ==
    /\ libOp = "load_sys"
    /\ Len(tried) = 1
    /\ dlls[toNativeSeparators(tried[1])] = "ERROR_BAD_EXE_FORMAT"
    /\ \E n \in NativeCandidates : dlls[n] = "loaded"
    /\ ~ret
    /\ errorString = cannotLoad(toNativeSeparators(fileName), "ERROR_BAD_EXE_FORMAT")

\* C5: qt_int_sqrt(n) is the integer square root of n for every n of the
\* word width: p * p <= n < (p + 1) * (p + 1) in exact arithmetic.
C5_IntSqrt ==
    sqrtPc = "done" =>
        /\ sqrtRet * sqrtRet <= sqrtN
        /\ sqrtN < (sqrtRet + 1) * (sqrtRet + 1)

\* C5 witness: an argument of the recursive branch whose root is the odd
\* candidate r + 1, the largest one included.
C5_Witness ==
    /\ sqrtPc = "done"
    /\ sqrtN = UINT_MAX
    /\ sqrtRet = 2 ^ HalfBits - 1

\* C6: on Windows 10.0 without service pack, productVersion() is "11" on a
\* workstation of build >= 22000 and "Server 2022" on a server of build
\* >= 20348.
C6_ProductVersion ==
    (/\ winPc = "done"
     /\ osver.version = <<10, 0>>
     /\ osver.wServicePackMajor = 0) =>
        /\ (osver.wProductType = "VER_NT_WORKSTATION" /\ osver.dwBuildNumber >= 22000)
              => winRet = <<"1", "1">>
        /\ (osver.wProductType # "VER_NT_WORKSTATION" /\ osver.dwBuildNumber >= 20348)
              => winRet = <<"S", "e", "r", "v", "e", "r", " ", "2", "0", "2", "2">>

\* C7: /etc/os-release takes precedence: whenever it exists,
\* /usr/lib/os-release is not read.
C7_EtcOsReleaseFirst ==
    (opened # <<>> /\ fs[etcOsRelease].exists) =>
        \A i \in 1..Len(opened) : opened[i] # usrLibOsRelease

\* C8: if productType() is "unknown", prettyProductName() equals
\* kernelType() + ' ' + kernelVersion(), and it is built from the kernel's
\* name and version only in that case. Stated where uname() succeeds, the
\* case the claim is about.
C8_PrettyFromKernel ==
    (/\ utsname.ok
     /\ ptypeRet # NullString
     /\ prettyRet # NullString
     /\ ktypeRet # NullString
     /\ kverRet # NullString) =>
        /\ ptypeRet = unknownText => prettyRet = ktypeRet \o <<" ">> \o kverRet
        /\ prettyFrom = "uname" => ptypeRet = unknownText

\* C10: the polling timer is active exactly when the engine watches a file
\* or a directory.
C10_TimerIffWatching ==
    watchOp.name # "idle" =>
        (timerActive <=> (files # <<>> \/ directories # <<>>))

\* The elements of ps at the indices in keep, from index i on, in order.
RECURSIVE C9_Sub(_, _, _)
C9_Sub(ps, keep, i) ==
    IF i > Len(ps) THEN <<>>
    ELSE (IF i \in keep THEN <<ps[i]>> ELSE <<>>) \o C9_Sub(ps, keep, i + 1)

\* C9: addPaths returns exactly the requested paths that do not exist or
\* are already in the caller's matching list, a path added earlier in the
\* same call included; every other one is appended to the matching list
\* and stored in the matching map with a snapshot of its state on disk.
C9_AddPaths ==
    [][watchOp'.name = "addPaths" =>
         LET ps == watchOp'.paths
             isDir(p) == disk[p[1]].exists /\ isDirObject(p[1])
             isFile(p) == disk[p[1]].exists /\ ~isDirObject(p[1]) /\ ~endsWith(p, "/")
             listed(p) == IF isDir(p) THEN contains(directoryList, p)
                          ELSE contains(fileList, p)
             rejected == { i \in 1..Len(ps) :
                             \/ ~(isDir(ps[i]) \/ isFile(ps[i]))
                             \/ listed(ps[i])
                             \/ \E j \in 1..(i - 1) : ps[j] = ps[i] }
             newFiles == { i \in 1..Len(ps) : i \notin rejected /\ isFile(ps[i]) }
             newDirs == { i \in 1..Len(ps) : i \notin rejected /\ isDir(ps[i]) }
         IN  /\ unhandled' = C9_Sub(ps, rejected, 1)
             /\ fileList' = fileList \o C9_Sub(ps, newFiles, 1)
             /\ directoryList' = directoryList \o C9_Sub(ps, newDirs, 1)
             /\ DOMAIN files' = DOMAIN files \cup { ps[i] : i \in newFiles }
             /\ DOMAIN directories' = DOMAIN directories \cup { ps[i] : i \in newDirs }
             /\ \A i \in newFiles :
                    files'[ps[i]] = [exists |-> TRUE, isDir |-> FALSE,
                                     stamp |-> disk[ps[i][1]].stamp,
                                     entries |-> <<>>]
             /\ \A i \in newDirs :
                    directories'[ps[i]] = [exists |-> TRUE, isDir |-> TRUE,
                                           stamp |-> disk[ps[i][1]].stamp,
                                           entries |-> <<ps[i][1], disk[ps[i][1]].stamp>>]
             /\ \A p \in DOMAIN files \ { ps[i] : i \in newFiles } :
                    files'[p] = files[p]
             /\ \A p \in DOMAIN directories \ { ps[i] : i \in newDirs } :
                    directories'[p] = directories[p]]_vars

\* C9 witness: the same directory requested twice in one call: watched
\* once, and returned once as not handled.
C9_Witness ==
    /\ watchOp = [name |-> "addPaths", paths |-> << <<"d">>, <<"d">> >>]
    /\ unhandled = << <<"d">> >>
    /\ directoryList = << <<"d">> >>
    /\ DOMAIN directories = { <<"d">> }
    /\ directories[<<"d">>].stamp = disk["d"].stamp

\* C11: a poll during which no watched file or directory has changed on
\* disk since its snapshot was taken emits no signal and leaves the two maps
\* as they are. Each change on disk gives the object a new stamp, so an
\* unchanged object exists and still has the stamp of its snapshot.
C11_QuietPoll ==
    [][watchOp.name = "none" /\ watchOp'.name = "timeout" =>
         LET untouched(map, p) == /\ disk[p[1]].exists
                                  /\ disk[p[1]].stamp = map[p].stamp
                                  /\ disk'[p[1]] = disk[p[1]]
         IN  ( /\ \A p \in DOMAIN files : untouched(files, p)
               /\ \A p \in DOMAIN directories : untouched(directories, p) )
             => /\ emitted' = {}
                /\ files' = files
                /\ directories' = directories]_vars

\* C11 witness: a file and a directory, the directory watched with and
\* without trailing "/", all untouched since they were added: the poll has
\* emitted nothing and kept the three of them.
C11_Witness ==
    /\ watchOp.name = "timeout"
    /\ emitted = {}
    /\ DOMAIN files = { <<"f">> }
    /\ DOMAIN directories = { <<"d">>, <<"d", "/">> }
    /\ \A o \in DiskObjects : disk[o] = [exists |-> TRUE, stamp |-> 0]
    /\ files[<<"f">>].stamp = 0
    /\ \A p \in DOMAIN directories : directories[p].stamp = 0

\* The names a walk of the asset folder key returns, entry by entry, a
\* folder followed by what it holds.
RECURSIVE C12_Walk(_, _)
C12_Walk(key, i) ==
    IF i > Len(listAssetContent(key)) THEN <<>>
    ELSE LET raw == listAssetContent(key)[i]
         IN  IF raw[Len(raw)] = "/"
             THEN <<SubSeq(raw, 1, Len(raw) - 1)>>
                  \o C12_Walk(key \o <<"/">> \o SubSeq(raw, 1, Len(raw) - 1), 1)
                  \o C12_Walk(key, i + 1)
             ELSE <<raw>> \o C12_Walk(key, i + 1)

\* C12: every iterator created for an asset folder enumerates all entries
\* of that folder, whatever other iterators over the same folder do: a
\* thread that has left its loop has seen the complete listing.
C12_CompleteListing ==
    \A t \in DOMAIN apc :
        apc[t] = "done" => seen[t] = C12_Walk(cleanedAssetPath(dirPath[t]), 1)

\* C13: fromCache is serialised by the cache mutex: one thread at a time is
\* between taking the mutex and returning; while a path stays in the cache
\* its listing is built at most once, and every caller gets the pointer the
\* cache holds for the path, which a call never changes for a cached path;
\* the cache is made for at least 50 entries.
C13_FromCacheSerialised ==
    /\ [](Cardinality({ t \in DOMAIN apc : apc[t] = "insert" }) <= 1)
    /\ [](\A k \in DOMAIN built : built[k] <= 1)
    /\ [](maxCost(envCacheSize) >= 50 /\ \A env \in -64..64 : maxCost(env) >= 50)
    /\ [][\A t \in DOMAIN apc :
            (apc[t] \in {"lock", "insert"} /\ apc'[t] = "ready") =>
                /\ folder'[t] = object(m_assetsCache', callPath[t])
                /\ object(m_assetsCache, callPath[t]) # 0 =>
                       folder'[t] = object(m_assetsCache, callPath[t])]_vars

\* C13 witness: two threads asked for the same path while the other held
\* the mutex or had just released it; the listing was built once and both
\* hold the same pointer.
C13_Witness ==
    /\ apc = [t \in Threads |-> "ready"]
    /\ callPath[1] = callPath[2]
    /\ folder[1] # 0
    /\ folder[1] = folder[2]
    /\ built[callPath[1]] = 1
    /\ Len(heap) = 1

\* Whether sys is key up to the case of its letters; key is in lower case.
C14_SameIgnoringCase(sys, key) ==
    /\ Len(sys) = Len(key)
    /\ \A i \in 1..Len(key) :
          \/ sys[i] = key[i]
          \/ \E j \in 1..Len(LowerCase) : LowerCase[j] = key[i] /\ UpperCase[j] = sys[i]

====
